---- MODULE Spec2Model ----
(***************************************************************************)
(* Casino slot-machine OCR: the per-frame extraction pipeline              *)
(* (CasinoOCRProcessor in src/src/real_time_ocr.py), the persistence       *)
(* upsert (DatabaseHandler.update_prize in src/src/database_handler.py)    *)
(* and the acquisition loop (main in src/main.py).                         *)
(*                                                                         *)
(* Conventions.                                                            *)
(*  - A text is a sequence of one-character strings.                       *)
(*  - A monetary amount is an integer number of hundredths: the parser     *)
(*    only ever converts strings of the shape digits[.dd], so hundredths   *)
(*    represent its floats exactly.  1234.56 is 123456.                    *)
(*  - A confidence is an integer number of hundredths (0.97 is 97).        *)
(*  - Python's None for an amount is the value None below.                 *)
(***************************************************************************)
EXTENDS Integers, Sequences, FiniteSets, TLC

VARIABLES
    text,           \* parser run: the text handed to parse_prize_amount
    pstage,         \* parser run: "idle" | "input" | "parsed" | "reparsed"
    parsed,         \* parser run: what parse_prize_amount(text) returned
    reparsed,       \* parser run: parse_prize_amount(f"{amount:.2f}")
    threshold,      \* config['processing']['confidence_threshold']
    machine_id,     \* args.machine_id
    headless,       \* args.headless
    pc,             \* main: the statement the run is at
    frame,          \* main: the frame returned by cap.read()
    result,         \* main: the value of the local variable result
    frame_count,    \* main: frame_count
    success_count,  \* main: success_count
    start_time,     \* main: start_time
    clock,          \* time.time()
    store,          \* table slot_machine_prizes, one row per machine_id
    calls,          \* every invocation of DatabaseHandler.update_prize, in order
    results,        \* every value returned by process_frame, in order
    metrics,        \* what log_ocr_performance was given, or NoMetrics
    exit            \* how main left the loop

vars == <<text, pstage, parsed, reparsed, threshold, machine_id, headless, pc,
          frame, result, frame_count, success_count, start_time, clock, store,
          calls, results, metrics, exit>>

parserVars == <<text, pstage, parsed, reparsed>>
mainVars == <<threshold, machine_id, headless, pc, frame, result, frame_count,
              success_count, start_time, clock, store, calls, results, metrics,
              exit>>

(***************************************************************************)
(* Bounds of the model.                                                    *)
(***************************************************************************)
MaxTextLen == 4     \* longest enumerated parser input
MaxLines == 3       \* most detections in one enumerated OCR result
MaxFrames == 3      \* most frames one run of main reads

None == -1

(***************************************************************************)
(* Characters.                                                             *)
(***************************************************************************)
Digits == {"0", "1", "2", "3", "4", "5", "6", "7", "8", "9"}
CurrencySymbols == {"$", "EUR", "GBP"}     \* $, the euro sign, the pound sign

DigitVal(c) ==
    CASE c = "0" -> 0 [] c = "1" -> 1 [] c = "2" -> 2 [] c = "3" -> 3
      [] c = "4" -> 4 [] c = "5" -> 5 [] c = "6" -> 6 [] c = "7" -> 7
      [] c = "8" -> 8 [] c = "9" -> 9

DigitChar(d) ==
    CASE d = 0 -> "0" [] d = 1 -> "1" [] d = 2 -> "2" [] d = 3 -> "3"
      [] d = 4 -> "4" [] d = 5 -> "5" [] d = 6 -> "6" [] d = 7 -> "7"
      [] d = 8 -> "8" [] d = 9 -> "9"

IsDigitAt(s, i) == i >= 1 /\ i <= Len(s) /\ s[i] \in Digits
IsCharAt(s, i, c) == i >= 1 /\ i <= Len(s) /\ s[i] = c
IsCurrencyAt(s, i) == i >= 1 /\ i <= Len(s) /\ s[i] \in CurrencySymbols

(***************************************************************************)
(* re.sub(r'[^\d.,$EUR GBP]', '', text): every character that is not a     *)
(* digit, a period, a comma or a currency symbol is removed.               *)
(***************************************************************************)
KeptChar(c) == c \in Digits \cup {".", ","} \cup CurrencySymbols
clean_text(t) == SelectSeq(t, KeptChar)

(***************************************************************************)
(* The pieces of the three regular expressions.  Each returns the index    *)
(* just after what it consumed, matching greedily as re does.  Every piece *)
(* after the first digit is optional, so a greedy choice is never undone.  *)
(***************************************************************************)
\* \d{1,3} at i (a digit is at i): up to three digits
RECURSIVE UpTo3Digits(_, _, _)
UpTo3Digits(s, i, n) ==
    IF n < 3 /\ IsDigitAt(s, i) THEN UpTo3Digits(s, i + 1, n + 1) ELSE i

\* \d+ at i (a digit is at i): every digit of the run
RECURSIVE AllDigits(_, _)
AllDigits(s, i) == IF IsDigitAt(s, i) THEN AllDigits(s, i + 1) ELSE i

\* (?:,\d{3})* at i
RECURSIVE CommaGroups(_, _)
CommaGroups(s, i) ==
    IF IsCharAt(s, i, ",") /\ IsDigitAt(s, i + 1) /\ IsDigitAt(s, i + 2)
                           /\ IsDigitAt(s, i + 3)
    THEN CommaGroups(s, i + 4)
    ELSE i

\* (?:\.\d{2})? at i
Decimals(s, i) ==
    IF IsCharAt(s, i, ".") /\ IsDigitAt(s, i + 1) /\ IsDigitAt(s, i + 2)
    THEN i + 3
    ELSE i

\* [\$EUR GBP]? at i, given what must follow it: the symbol is taken when a
\* digit follows, and otherwise the match is tried without it
OptCurrencyBefore(s, i) ==
    IF IsCurrencyAt(s, i) /\ IsDigitAt(s, i + 1) THEN i + 1 ELSE i

\* [\$EUR GBP]? at i, at the end of a pattern
OptCurrencyAfter(s, i) == IF IsCurrencyAt(s, i) THEN i + 1 ELSE i

\* \d{1,3}(?:,\d{3})*(?:\.\d{2})?
Grouped(s, i) == Decimals(s, CommaGroups(s, UpTo3Digits(s, i, 0)))
\* \d+(?:\.\d{2})?
Plain(s, i) == Decimals(s, AllDigits(s, i))

(***************************************************************************)
(* One attempt of pattern p at index i: ok, the captured group [gs, ge)    *)
(* and the index where the whole match ends.                               *)
(***************************************************************************)
NoMatch == [ok |-> FALSE, gs |-> 0, ge |-> 0, end |-> 0]

MatchAt(p, s, i) ==
    CASE p = 1 ->
           LET g == OptCurrencyBefore(s, i) IN
           IF IsDigitAt(s, g)
           THEN [ok |-> TRUE, gs |-> g, ge |-> Grouped(s, g), end |-> Grouped(s, g)]
           ELSE NoMatch
      [] p = 2 ->
           IF IsDigitAt(s, i)
           THEN [ok |-> TRUE, gs |-> i, ge |-> Grouped(s, i),
                 end |-> OptCurrencyAfter(s, Grouped(s, i))]
           ELSE NoMatch
      [] p = 3 ->
           LET g == OptCurrencyBefore(s, i) IN
           IF IsDigitAt(s, g)
           THEN [ok |-> TRUE, gs |-> g, ge |-> Plain(s, g), end |-> Plain(s, g)]
           ELSE NoMatch

(***************************************************************************)
(* re.findall(pattern, s): the captured groups of the non-overlapping      *)
(* matches, scanning left to right.                                        *)
(***************************************************************************)
RECURSIVE findall_from(_, _, _)
findall_from(p, s, i) ==
    IF i > Len(s) THEN <<>>
    ELSE LET m == MatchAt(p, s, i) IN
         IF m.ok
         THEN <<SubSeq(s, m.gs, m.ge - 1)>> \o findall_from(p, s, m.end)
         ELSE findall_from(p, s, i + 1)

findall(p, s) == findall_from(p, s, 1)

(***************************************************************************)
(* matches[0].replace(',', '') and float(amount_str).                      *)
(***************************************************************************)
NotComma(c) == c # ","
replace_commas(s) == SelectSeq(s, NotComma)

RECURSIVE IntOf(_)
IntOf(ds) ==
    IF ds = <<>> THEN 0
    ELSE IntOf(SubSeq(ds, 1, Len(ds) - 1)) * 10 + DigitVal(ds[Len(ds)])

ValueError == -2

\* float() of digits[.dd], in hundredths; anything else raises ValueError
float(s) ==
    LET e == AllDigits(s, 1) IN
    IF e = 1 THEN ValueError
    ELSE IF e = Len(s) + 1 THEN IntOf(s) * 100
    ELSE IF e + 2 = Len(s) /\ Decimals(s, e) = Len(s) + 1
         THEN IntOf(SubSeq(s, 1, e - 1)) * 100 + IntOf(SubSeq(s, e + 1, e + 2))
         ELSE ValueError

MinAmount == 1              \* 0.01
MaxAmount == 100000000      \* 1000000

InRange(a) == MinAmount <= a /\ a <= MaxAmount

(***************************************************************************)
(* The loop over the patterns, from pattern k on: the amount returned and  *)
(* the pattern whose match produced it (0 when None is returned).          *)
(***************************************************************************)
NumPatterns == 3

RECURSIVE parse_loop(_, _)
parse_loop(s, k) ==
    IF k > NumPatterns THEN [amount |-> None, pattern |-> 0]
    ELSE LET matches == findall(k, s) IN
         IF matches # <<>>
         THEN LET amount == float(replace_commas(matches[1])) IN
              IF amount # ValueError /\ InRange(amount)
              THEN [amount |-> amount, pattern |-> k]
              ELSE parse_loop(s, k + 1)
         ELSE parse_loop(s, k + 1)

parse_prize_amount_trace(t) == parse_loop(clean_text(t), 1)

parse_prize_amount(t) == parse_prize_amount_trace(t).amount

(***************************************************************************)
(* f"{amount:.2f}" of an amount the parser returned.                       *)
(***************************************************************************)
RECURSIVE IntDigits(_)
IntDigits(n) ==
    IF n < 10 THEN <<DigitChar(n)>>
    ELSE IntDigits(n \div 10) \o <<DigitChar(n % 10)>>

format_2f(a) ==
    IntDigits(a \div 100) \o <<".", DigitChar((a % 100) \div 10), DigitChar(a % 10)>>

(***************************************************************************)
(* Detections.  A line of the OCR result is line[1] = (text, confidence).  *)
(***************************************************************************)
T_10 == <<"$", "1", "0", ".", "0", "0">>
T_20 == <<"$", "2", "0", ".", "0", "0">>
T_JACKPOT == <<"J", "A", "C", "K", "P", "O", "T">>
T_PRIZE_500 == <<"P", "R", "I", "Z", "E", " ", "$", "5", "0", "0", ".", "0", "0">>

DetTexts == {T_10, T_20, T_JACKPOT}
Confidences == {0, 90, 99}
Thresholds == {0, 90}
MachineIds == {"SM-1", "SM-2"}

Detections == [text : DetTexts, confidence : Confidences]

LinesUpTo(n) == UNION {[1..k -> Detections] : k \in 0..n}

(***************************************************************************)
(* A frame, seen through what the pipeline does with it: the lines the     *)
(* recognizer returns for it (result[0]; an empty or missing result[0] is  *)
(* no lines), and the stage that raises on it, if any.  fault = "line"     *)
(* is a malformed line at index `at`, raising inside the scan.             *)
(***************************************************************************)
StageFaults == {"extract_roi", "preprocess_image", "ocr"}

FaultsOf(l) ==
    {<<"none", 0>>}
    \cup {<<"line", a>> : a \in 1..Len(l)}
    \cup (IF l = <<>> THEN {<<f, 0>> : f \in StageFaults} ELSE {})

NoFrame == [lines |-> <<>>, fault |-> "none", at |-> 0]

(***************************************************************************)
(* process_frame.                                                          *)
(***************************************************************************)
error_status(msg) ==
    CASE msg = "extract_roi" -> "error: extract_roi"
      [] msg = "preprocess_image" -> "error: preprocess_image"
      [] msg = "ocr" -> "error: ocr"
      [] msg = "line" -> "error: line"

ErrorStatuses == {error_status(f) : f \in StageFaults \cup {"line"}}

\* extracted_data as first built
initial_data(mid, now) ==
    [machine_id |-> mid, timestamp |-> now, prize_amount |-> None,
     confidence |-> 0, raw_text |-> <<>>, status |-> "processing"]

\* extracted_data['raw_text'].append({...})
append_raw_front(data, line) ==
    [data EXCEPT !.raw_text = <<[text |-> line.text,
                                 confidence |-> line.confidence]>> \o @]

append_raw(data, line) ==
    [data EXCEPT !.raw_text = Append(@, [text |-> line.text,
                                         confidence |-> line.confidence])]

\* prize_amount and (extracted_data['prize_amount'] is None or
\*                   confidence > extracted_data['confidence'])
replaces_best_ge(prize_amount, confidence, data) ==
    /\ prize_amount # None /\ prize_amount # 0
    /\ (data.prize_amount = None \/ confidence >= data.confidence)

replaces_best(prize_amount, confidence, data) ==
    /\ prize_amount # None /\ prize_amount # 0
    /\ (data.prize_amount = None \/ confidence > data.confidence)

\* one iteration of the loop over result[0]
scan_line(data, line, thr) ==
    LET d1 == append_raw(data, line) IN
    IF line.confidence >= thr
    THEN LET prize_amount == parse_prize_amount(line.text) IN
         IF replaces_best(prize_amount, line.confidence, d1)
         THEN [d1 EXCEPT !.prize_amount = prize_amount,
                         !.confidence = line.confidence]
         ELSE d1
    ELSE d1

\* the loop over result[0] from index i on; raised when a line raises
RECURSIVE scan_lines(_, _, _, _)
scan_lines(fr, i, data, thr) ==
    IF i > Len(fr.lines) THEN [raised |-> FALSE, msg |-> "", data |-> data]
    ELSE IF fr.fault = "line" /\ fr.at = i
         THEN [raised |-> TRUE, msg |-> "line", data |-> data]
         ELSE scan_lines(fr, i + 1, scan_line(data, fr.lines[i], thr), thr)

\* the try body up to the status update: extract_roi, preprocess_image,
\* ocr, then the scan
try_body(fr, mid, now, thr) ==
    IF fr.fault \in StageFaults
    THEN [raised |-> TRUE, msg |-> fr.fault, data |-> initial_data(mid, now)]
    ELSE scan_lines(fr, 1, initial_data(mid, now), thr)

\* the status update after the scan
final_status_any_text(data) ==
    IF data.raw_text # <<>> THEN "success" ELSE "no_prize_found"

final_status(data) ==
    IF data.prize_amount # None THEN "success" ELSE "no_prize_found"

\* except Exception as e: the dict returned
on_exception_reraise(msg, mid, now) ==
    [raised |-> TRUE,
     value |-> [machine_id |-> mid, timestamp |-> now, prize_amount |-> None,
                confidence |-> 0, raw_text |-> <<>>,
                status |-> error_status(msg)]]

on_exception(msg, mid, now) ==
    [raised |-> FALSE,
     value |-> [machine_id |-> mid, timestamp |-> now, prize_amount |-> None,
                confidence |-> 0, raw_text |-> <<>>,
                status |-> error_status(msg)]]

\* process_frame(frame, machine_id): whether an exception leaves the call,
\* and the dict it returns otherwise
process_frame(fr, mid, now, thr) ==
    LET t == try_body(fr, mid, now, thr) IN
    IF t.raised
    THEN on_exception(t.msg, mid, now)
    ELSE [raised |-> FALSE,
          value |-> [t.data EXCEPT !.status = final_status(t.data)]]

NoResult ==
    [machine_id |-> "", timestamp |-> 0, prize_amount |-> None,
     confidence |-> 0, raw_text |-> <<>>, status |-> "unbound"]

(***************************************************************************)
(* DatabaseHandler.update_prize: cursor.execute(query, ...) and then       *)
(* connection.commit().  `outcome` is what the database does: "ok",        *)
(* "execute_fails" or "commit_fails"; a statement that is not committed    *)
(* leaves the table as it was.  The INSERT ... ON CONFLICT (machine_id)    *)
(* DO UPDATE writes the one row of machine_id; updated_at is set by the    *)
(* DO UPDATE branch only.                                                  *)
(***************************************************************************)
NoRow ==
    [present |-> FALSE, prize_amount |-> None, confidence |-> 0,
     detected_at |-> 0, updated_at |-> None]

Outcomes == {"ok", "execute_fails", "commit_fails"}

upsert_row(st, mid, prize_amount, confidence, timestamp, now) ==
    [st EXCEPT ![mid] =
        [present |-> TRUE, prize_amount |-> prize_amount,
         confidence |-> confidence, detected_at |-> timestamp,
         updated_at |-> IF st[mid].present THEN now ELSE st[mid].updated_at]]

update_prize_autocommit(st, mid, prize_amount, confidence, timestamp, now, outcome) ==
    IF outcome # "execute_fails"
    THEN [raised |-> outcome # "ok",
          store |-> upsert_row(st, mid, prize_amount, confidence, timestamp, now)]
    ELSE [raised |-> TRUE, store |-> st]

update_prize(st, mid, prize_amount, confidence, timestamp, now, outcome) ==
    IF outcome = "ok"
    THEN [raised |-> FALSE,
          store |-> upsert_row(st, mid, prize_amount, confidence, timestamp, now)]
    ELSE [raised |-> TRUE, store |-> st]

(***************************************************************************)
(* CasinoOCRProcessor.update_database(result): the store and the record of *)
(* update_prize invocations after the call.  The except clause logs and    *)
(* returns, so nothing is raised to the caller.                            *)
(***************************************************************************)
call_record(res, n, raised) ==
    [frame_no |-> n, machine_id |-> res.machine_id,
     prize_amount |-> res.prize_amount, confidence |-> res.confidence,
     timestamp |-> res.timestamp, raised |-> raised]

update_database_is_none(res, st, cl, n, now, outcome) ==
    IF res.status = "success" /\ res.prize_amount = None
    THEN LET u == update_prize(st, res.machine_id, res.prize_amount,
                               res.confidence, res.timestamp, now, outcome) IN
         [store |-> u.store, calls |-> Append(cl, call_record(res, n, u.raised))]
    ELSE [store |-> st, calls |-> cl]

update_database(res, st, cl, n, now, outcome) ==
    IF res.status = "success" /\ res.prize_amount # None
    THEN LET u == update_prize(st, res.machine_id, res.prize_amount,
                               res.confidence, res.timestamp, now, outcome) IN
         [store |-> u.store, calls |-> Append(cl, call_record(res, n, u.raised))]
    ELSE [store |-> st, calls |-> cl]

(***************************************************************************)
(* main.  The run is followed from the camera being opened, after the      *)
(* tracking run was started.  A step is one call that takes time           *)
(* (cap.read, process_frame, update_database, the display calls,           *)
(* time.sleep) together with the local statements that follow it; a        *)
(* KeyboardInterrupt arrives during such a call.                           *)
(***************************************************************************)
NoMetrics == [logged |-> FALSE, accuracy |-> <<0, 1>>, processing_time |-> 0,
              frames_processed |-> 0]

F_PRIZE == [lines |-> <<[text |-> T_PRIZE_500, confidence |-> 97]>>,
            fault |-> "none", at |-> 0]
F_NOTHING == [lines |-> <<[text |-> T_JACKPOT, confidence |-> 99]>>,
              fault |-> "none", at |-> 0]
F_TIE == [lines |-> <<[text |-> T_10, confidence |-> 90],
                      [text |-> T_20, confidence |-> 90]>>,
          fault |-> "none", at |-> 0]
F_ROI_RAISES == [lines |-> <<>>, fault |-> "extract_roi", at |-> 0]
F_PREPROCESS_RAISES == [lines |-> <<>>, fault |-> "preprocess_image", at |-> 0]
F_OCR_RAISES == [lines |-> <<>>, fault |-> "ocr", at |-> 0]
F_LINE_RAISES == [lines |-> <<[text |-> T_10, confidence |-> 99],
                              [text |-> T_20, confidence |-> 99]>>,
                  fault |-> "line", at |-> 2]

MainFrames == {F_PRIZE, F_NOTHING, F_TIE, F_ROI_RAISES, F_PREPROCESS_RAISES,
               F_OCR_RAISES, F_LINE_RAISES}

EmptyStore == [m \in MachineIds |-> NoRow]
OldStore ==
    [EmptyStore EXCEPT !["SM-1"] =
        [present |-> TRUE, prize_amount |-> 777, confidence |-> 91,
         detected_at |-> 0, updated_at |-> None]]

NotParsed == [amount |-> None, pattern |-> 0]

ParserIdle ==
    text = <<>> /\ pstage = "idle" /\ parsed = NotParsed /\ reparsed = NotParsed

Init ==
    /\ ParserIdle
    /\ threshold = 90
    /\ machine_id \in MachineIds
    /\ headless \in BOOLEAN
    /\ pc = "open"
    /\ frame = NoFrame
    /\ result = NoResult
    /\ frame_count = 0
    /\ success_count = 0
    /\ start_time = 0
    /\ clock = 0
    /\ store \in {EmptyStore, OldStore}
    /\ calls = <<>>
    /\ results = <<>>
    /\ metrics = NoMetrics
    /\ exit = "running"

\* the statement after update_database: the display block unless headless
after_update == IF headless THEN "sleep" ELSE "display"

\* cap.isOpened() is false: print and return
CameraNotOpened ==
    /\ pc = "open"
    /\ pc' = "done"
    /\ exit' = "camera_not_opened"
    /\ UNCHANGED <<parserVars, threshold, machine_id, headless, frame, result,
                   frame_count, success_count, start_time, clock, store, calls,
                   results, metrics>>

\* cap.isOpened() is true: the counters and start_time are set
CameraOpened ==
    /\ pc = "open"
    /\ pc' = "read"
    /\ frame_count' = 0
    /\ success_count' = 0
    /\ start_time' = clock
    /\ UNCHANGED <<parserVars, threshold, machine_id, headless, frame, result,
                   clock, store, calls, results, metrics, exit>>

\* ret, frame = cap.read() with ret true
ReadFrame ==
    /\ pc = "read"
    /\ frame_count < MaxFrames
    /\ \E f \in MainFrames : frame' = f
    /\ pc' = "process"
    /\ UNCHANGED <<parserVars, threshold, machine_id, headless, result,
                   frame_count, success_count, start_time, clock, store, calls,
                   results, metrics, exit>>

\* ret is false: print and break
ReadFails ==
    /\ pc = "read"
    /\ pc' = "finally"
    /\ exit' = "read_failed"
    /\ UNCHANGED <<parserVars, threshold, machine_id, headless, frame, result,
                   frame_count, success_count, start_time, clock, store, calls,
                   results, metrics>>

\* result = process_frame(frame, machine_id); frame_count += 1;
\* if result['status'] == 'success': success_count += 1 (and go to the update)
ProcessFrame ==
    /\ pc = "process"
    /\ clock' = clock + 1
    /\ LET r == process_frame(frame, machine_id, clock', threshold) IN
       IF r.raised
       THEN /\ pc' = "finally"
            /\ exit' = "frame_exception"
            /\ UNCHANGED <<result, results, frame_count, success_count>>
       ELSE /\ result' = r.value
            /\ results' = Append(results, r.value)
            /\ frame_count' = frame_count + 1
            /\ success_count' =
                 IF r.value.status = "success" THEN success_count + 1
                 ELSE success_count
            /\ pc' = IF r.value.status = "success" THEN "upsert" ELSE after_update
            /\ exit' = exit
    /\ UNCHANGED <<parserVars, threshold, machine_id, headless, frame,
                   start_time, store, calls, metrics>>

\* ocr_processor.update_database(result)
UpdateDatabase ==
    /\ pc = "upsert"
    /\ \E outcome \in Outcomes :
         LET u == update_database(result, store, calls, frame_count, clock, outcome) IN
         /\ store' = u.store
         /\ calls' = u.calls
    /\ pc' = after_update
    /\ UNCHANGED <<parserVars, threshold, machine_id, headless, frame, result,
                   frame_count, success_count, start_time, clock, results,
                   metrics, exit>>

\* the display block, and cv2.waitKey(1) does not return 'q'
Display ==
    /\ pc = "display"
    /\ pc' = "sleep"
    /\ UNCHANGED <<parserVars, threshold, machine_id, headless, frame, result,
                   frame_count, success_count, start_time, clock, store, calls,
                   results, metrics, exit>>

\* cv2.waitKey(1) returns 'q': break
QuitKey ==
    /\ pc = "display"
    /\ pc' = "finally"
    /\ exit' = "quit"
    /\ UNCHANGED <<parserVars, threshold, machine_id, headless, frame, result,
                   frame_count, success_count, start_time, clock, store, calls,
                   results, metrics>>

\* a display call raises (cv2.error): the finally block runs and the
\* exception leaves main
DisplayRaises ==
    /\ pc = "display"
    /\ pc' = "finally"
    /\ exit' = "display_exception"
    /\ UNCHANGED <<parserVars, threshold, machine_id, headless, frame, result,
                   frame_count, success_count, start_time, clock, store, calls,
                   results, metrics>>

\* time.sleep(0.1)
Sleep ==
    /\ pc = "sleep"
    /\ clock' = clock + 1
    /\ pc' = "read"
    /\ UNCHANGED <<parserVars, threshold, machine_id, headless, frame, result,
                   frame_count, success_count, start_time, store, calls,
                   results, metrics, exit>>

\* KeyboardInterrupt during cap.read, process_frame (which catches
\* Exception only), the display calls or time.sleep
KeyboardInterrupt ==
    /\ pc \in {"read", "process", "display", "sleep"}
    /\ pc' = "finally"
    /\ exit' = "interrupted"
    /\ UNCHANGED <<parserVars, threshold, machine_id, headless, frame, result,
                   frame_count, success_count, start_time, clock, store, calls,
                   results, metrics>>

\* KeyboardInterrupt during update_prize (update_database catches Exception
\* only): the call was made, and the statement was committed or was not
InterruptedUpdate ==
    /\ pc = "upsert"
    /\ \E outcome \in {"ok", "execute_fails"} :
         LET u == update_database(result, store, calls, frame_count, clock, outcome) IN
         /\ store' = u.store
         /\ calls' = [i \in DOMAIN u.calls |->
                        IF i = Len(u.calls) THEN [u.calls[i] EXCEPT !.raised = TRUE]
                        ELSE u.calls[i]]
    /\ pc' = "finally"
    /\ exit' = "interrupted"
    /\ UNCHANGED <<parserVars, threshold, machine_id, headless, frame, result,
                   frame_count, success_count, start_time, clock, results,
                   metrics>>

\* finally: accuracy, processing_time, log_ocr_performance(...)
log_ocr_performance(accuracy, processing_time, frames_processed) ==
    [logged |-> TRUE, accuracy |-> accuracy,
     processing_time |-> processing_time, frames_processed |-> frames_processed]

Finally ==
    /\ pc = "finally"
    /\ LET processing_time == clock - start_time
           accuracy == IF frame_count > 0 THEN <<success_count, frame_count>>
                       ELSE <<0, 1>>
       IN metrics' = log_ocr_performance(accuracy, processing_time, frame_count)
    /\ pc' = "done"
    /\ UNCHANGED <<parserVars, threshold, machine_id, headless, frame, result,
                   frame_count, success_count, start_time, clock, store, calls,
                   results, exit>>

Next ==
    \/ CameraNotOpened
    \/ CameraOpened
    \/ ReadFrame
    \/ ReadFails
    \/ ProcessFrame
    \/ UpdateDatabase
    \/ Display
    \/ QuitKey
    \/ DisplayRaises
    \/ Sleep
    \/ KeyboardInterrupt
    \/ InterruptedUpdate
    \/ Finally

Spec == Init /\ [][Next]_vars

(***************************************************************************)
(* process_frame alone, over every enumerated frame and threshold: the     *)
(* run starts at the call of process_frame and makes that one step.        *)
(***************************************************************************)
InitFrame ==
    /\ ParserIdle
    /\ threshold \in Thresholds
    /\ machine_id = "SM-1"
    /\ headless = TRUE
    /\ pc = "process"
    /\ \E k \in 0..MaxLines : \E l \in [1..k -> Detections] :
         \E fa \in FaultsOf(l) :
            frame = [lines |-> l, fault |-> fa[1], at |-> fa[2]]
    /\ result = NoResult
    /\ frame_count = 0
    /\ success_count = 0
    /\ start_time = 0
    /\ clock = 0
    /\ store = EmptyStore
    /\ calls = <<>>
    /\ results = <<>>
    /\ metrics = NoMetrics
    /\ exit = "running"

SpecFrame == InitFrame /\ [][ProcessFrame]_vars

(***************************************************************************)
(* parse_prize_amount alone: the text is parsed, and an amount it returns  *)
(* is formatted with ':.2f' (as main prints it) and parsed again.          *)
(***************************************************************************)
T_2M == <<"$", "2", ",", "0", "0", "0", ",", "0", "0", "0", ".", "0", "0">>
T_ZERO == <<"0", ".", "0", "0">>
T_1234_WIN == <<"$", "1", ",", "2", "3", "4", ".", "5", "6", " ", "W", "I", "N">>
T_250 == <<"2", "5", "0">>

ParseAlphabet == {"0", "1", "5", ",", ".", "$", "W"}
TextsUpTo(n) == UNION {[1..k -> ParseAlphabet] : k \in 0..n}
NamedTexts == {T_2M, T_ZERO, T_1234_WIN, T_250, T_JACKPOT, T_PRIZE_500, T_10, T_20}
ParserInputs == TextsUpTo(MaxTextLen) \cup NamedTexts

MainIdle ==
    /\ threshold = 90
    /\ machine_id = "SM-1"
    /\ headless = TRUE
    /\ pc = "done"
    /\ frame = NoFrame
    /\ result = NoResult
    /\ frame_count = 0
    /\ success_count = 0
    /\ start_time = 0
    /\ clock = 0
    /\ store = EmptyStore
    /\ calls = <<>>
    /\ results = <<>>
    /\ metrics = NoMetrics
    /\ exit = "running"

InitParse ==
    /\ text \in ParserInputs
    /\ pstage = "input"
    /\ parsed = NotParsed
    /\ reparsed = NotParsed
    /\ MainIdle

Parse ==
    /\ pstage = "input"
    /\ parsed' = parse_prize_amount_trace(text)
    /\ pstage' = "parsed"
    /\ UNCHANGED <<text, reparsed, mainVars>>

Reparse ==
    /\ pstage = "parsed"
    /\ parsed.amount # None
    /\ reparsed' = parse_prize_amount_trace(format_2f(parsed.amount))
    /\ pstage' = "reparsed"
    /\ UNCHANGED <<text, parsed, mainVars>>

NextParse == Parse \/ Reparse

SpecParse == InitParse /\ [][NextParse]_vars

(***************************************************************************)
(* Properties.                                                             *)
(***************************************************************************)
\* the frame process_frame was just called on returned normally
Scanned == results # <<>> /\ frame.fault = "none"

\* detection i passes the threshold and its text parses to an amount
Eligible(i) ==
    /\ frame.lines[i].confidence >= threshold
    /\ parse_prize_amount(frame.lines[i].text) # None

EligibleSet == {i \in DOMAIN frame.lines : Eligible(i)}

\* C1: the result of process_frame carries the amount and the confidence of
\* the first detection, in emission order, that has the highest confidence
\* among the eligible ones (confidence >= threshold and the text parses); with
\* no eligible detection the amount is empty and the confidence 0.  With
\* [("$10.00", 0.9), ("$20.00", 0.9)] and threshold 0.9 the amount is 10.00.
C1_FirstHighestWins ==
    Scanned =>
      /\ EligibleSet = {} =>
           results[1].prize_amount = None /\ results[1].confidence = 0
      /\ EligibleSet # {} =>
           \E i \in EligibleSet :
              /\ \A j \in EligibleSet :
                    /\ frame.lines[j].confidence <= frame.lines[i].confidence
                    /\ j < i => frame.lines[j].confidence < frame.lines[i].confidence
              /\ results[1].prize_amount = parse_prize_amount(frame.lines[i].text)
              /\ results[1].confidence = frame.lines[i].confidence
      /\ (frame.lines = F_TIE.lines /\ threshold = 90) =>
           results[1].prize_amount = 1000

\* three detections: one below the threshold with the highest confidence
\* value of the ineligible ones, then two eligible ones that tie; the first
\* of the two is the best
C1_Witness ==
    /\ Scanned
    /\ threshold = 90
    /\ Len(frame.lines) = 3
    /\ frame.lines[1] = [text |-> T_JACKPOT, confidence |-> 99]
    /\ frame.lines[2] = [text |-> T_10, confidence |-> 90]
    /\ frame.lines[3] = [text |-> T_20, confidence |-> 90]
    /\ results[1].prize_amount = 1000
    /\ results[1].confidence = 90

\* C2: every result process_frame returns, from the normal path or from the
\* except clause, has status 'success' exactly when its prize_amount is not
\* empty, and never has the status 'processing'.
C2_SuccessIffAmount ==
    \A n \in DOMAIN results :
       /\ (results[n].status = "success") <=> (results[n].prize_amount # None)
       /\ results[n].status # "processing"
       /\ results[n].status \in {"success", "no_prize_found"} \cup ErrorStatuses

\* a frame with detections none of which yields an amount: no_prize_found
C2_Witness ==
    /\ Scanned
    /\ Len(frame.lines) >= 2
    /\ results[1].raw_text # <<>>
    /\ results[1].status = "no_prize_found"
    /\ results[1].prize_amount = None

\* C10: when process_frame handles a frame without an exception, raw_text
\* holds every detection the recognizer emitted, those below the threshold
\* and those that do not parse included, in emission order, each with its own
\* text and confidence.
C10_RawTextKeepsAll ==
    Scanned =>
      /\ Len(results[1].raw_text) = Len(frame.lines)
      /\ \A i \in DOMAIN frame.lines :
            results[1].raw_text[i] =
               [text |-> frame.lines[i].text,
                confidence |-> frame.lines[i].confidence]

\* a below-threshold detection, an unparseable one and the best one, in
\* that order, all recorded
C10_Witness ==
    /\ Scanned
    /\ threshold = 90
    /\ Len(frame.lines) = 3
    /\ frame.lines[1] = [text |-> T_20, confidence |-> 0]
    /\ frame.lines[2] = [text |-> T_JACKPOT, confidence |-> 99]
    /\ frame.lines[3] = [text |-> T_10, confidence |-> 90]
    /\ Len(results[1].raw_text) = 3
    /\ results[1].prize_amount = 1000

\* the invocations of update_prize made for frame n
CallsFor(n) == {i \in DOMAIN calls : calls[i].frame_no = n}

SuccessFrames == {n \in DOMAIN results : results[n].status = "success"}

\* C6: an exception raised at any stage of process_frame (cropping,
\* normalizing, recognizing, scanning) does not leave process_frame: the call
\* returns a result whose status begins with 'error:', whose prize_amount is
\* empty and whose confidence is 0; main counts the frame and goes on to the
\* display and sleep steps that precede the next read, and update_prize is
\* not invoked between that frame and the next one.
C6_ErrorsStayInFrame ==
    [][/\ (pc = "process" /\ frame.fault # "none" /\ exit' # "interrupted") =>
            /\ exit' = "running"
            /\ result'.status = error_status(frame.fault)
            /\ result'.status \in ErrorStatuses
            /\ result'.prize_amount = None
            /\ result'.confidence = 0
            /\ results' = Append(results, result')
            /\ frame_count' = frame_count + 1
            /\ success_count' = success_count
            /\ pc' = after_update
            /\ calls' = calls /\ store' = store
       /\ (pc \in {"display", "sleep"} /\ result.status \in ErrorStatuses) =>
            /\ calls' = calls /\ store' = store
            /\ pc' \in {"sleep", "read", "finally"}
            /\ pc' = "finally" =>
                 exit' \in {"quit", "interrupted", "display_exception"}
      ]_vars

\* an error frame, then a further frame read and processed, and no
\* invocation of update_prize for the error frame
C6_Witness ==
    /\ Len(results) >= 2
    /\ results[1].status = "error: line"
    /\ results[2].status = "success"
    /\ CallsFor(1) = {}
    /\ exit = "running"

C8_FailedUpsertLeavesStore ==
    [][(/\ pc = "upsert"
        /\ Len(calls') = Len(calls) + 1
        /\ calls'[Len(calls')].raised
        /\ exit' # "interrupted") =>
            /\ store' = store
            /\ pc' = after_update
            /\ exit' = "running"
            /\ frame_count' = Len(results')
            /\ success_count' = Cardinality(SuccessFrames)
            /\ Len(results') \in SuccessFrames
      ]_vars

\* a failed upsert over an existing row, and the run has read and processed
\* a further frame since
C8_Witness ==
    /\ Len(calls) >= 1
    /\ calls[1].raised
    /\ calls[1].frame_no = 1
    /\ Len(results) >= 2
    /\ exit = "running"
    /\ machine_id = "SM-1"
    /\ store = OldStore
    /\ frame_count = 2 /\ success_count >= 1

\* C9: every run of main that ends, whether by a failed read, a keyboard
\* interruption, the quit key or the camera failing to open after the
\* tracking run was started, has given log_ocr_performance the accuracy
\* (success_count / frame_count, or 0 without frames), the elapsed time and
\* the frame count.
C9_MetricsWhenDone ==
    pc = "done" =>
       /\ metrics.logged
       /\ metrics.frames_processed = frame_count
       /\ metrics.processing_time = clock - start_time
       /\ metrics.accuracy =
            IF frame_count > 0 THEN <<success_count, frame_count>> ELSE <<0, 1>>

(***************************************************************************)
(* Properties of parse_prize_amount.                                       *)
(***************************************************************************)
\* the whole cleaned text is one amount: an optional currency symbol, digits
\* either grouped by commas in threes or plain, an optional two-digit
\* decimal part and an optional trailing currency symbol
WellFormed(t) ==
    LET c == clean_text(t)
        g == OptCurrencyBefore(c, 1)
    IN /\ IsDigitAt(c, g)
       /\ \/ OptCurrencyAfter(c, Grouped(c, g)) = Len(c) + 1
          \/ OptCurrencyAfter(c, Plain(c, g)) = Len(c) + 1

\* the value of a well-formed text: its digits, commas removed
ValueOf(t) ==
    LET c == clean_text(t)
        g == OptCurrencyBefore(c, 1)
        e == IF OptCurrencyAfter(c, Grouped(c, g)) = Len(c) + 1
             THEN Grouped(c, g) ELSE Plain(c, g)
    IN float(replace_commas(SubSeq(c, g, e - 1)))

\* C3: parse_prize_amount returns empty for every well-formed amount text
\* whose value is <= 0 or > 1,000,000; "$2,000,000.00" and "0.00" yield
\* empty.
C3_OutOfRangeRejected ==
    (pstage = "parsed" /\ WellFormed(text) /\ ~InRange(ValueOf(text))) =>
       parsed.amount = None

\* the first pattern, in order, that has a match on the cleaned text (0: none)
FirstMatching(c) ==
    IF \E k \in 1..NumPatterns : findall(k, c) # <<>>
    THEN CHOOSE k \in 1..NumPatterns :
            /\ findall(k, c) # <<>>
            /\ \A j \in 1..(k - 1) : findall(j, c) = <<>>
    ELSE 0

\* C4: the patterns are applied in order and the parser stops at the first
\* one with a match: the value returned comes from the first match of that
\* pattern, commas removed, and no later pattern produces the result once an
\* earlier one has matched, whatever parsing and the range check say.
C4_FirstMatchingPatternOnly ==
    pstage = "parsed" =>
       LET c == clean_text(text)
           k == FirstMatching(c)
       IN /\ k = 0 => parsed.amount = None
          /\ k # 0 =>
               /\ parsed.pattern \in {0, k}
               /\ parsed.amount # None =>
                    parsed.amount = float(replace_commas(findall(k, c)[1]))

\* C5: parsing the ':.2f' rendering of an amount the parser returned gives
\* that amount again, amounts of 1000 or more included.
C5_ReparseSameAmount ==
    pstage = "reparsed" => reparsed.amount = parsed.amount

====
